---- MODULE Spec2Model ----
(***************************************************************************)
(* Finalizer helpers of pkg/utils/common/finalizer.go: the presence        *)
(* predicates, the four ensure operations, and the two-way strategic merge *)
(* patch they submit to the API server, run by two controllers against one *)
(* stored object.                                                          *)
(***************************************************************************)
EXTENDS Naturals, Sequences, FiniteSets

\* ---------------------------------------------------------------- bounds
\* Longest finalizer list a stored object or a snapshot may hold.
MaxLen == 2

\* Most Patch requests of one reconciliation loop the store may fail.
MaxRejects == 2

\* ------------------------------------------------------ finalizer registry
FinalizerKey == "networking.gke.io/ingress-finalizer"
FinalizerKeyV2 == "networking.gke.io/ingress-finalizer-V2"
LegacyILBFinalizer == "gke.networking.io/l4-ilb-v1"
ILBFinalizerV2 == "gke.networking.io/l4-ilb-v2"
NegFinalizerKey == "networking.gke.io/neg-finalizer"

\* The tokens the controllers of the model pass to the ensure operations.
Tokens == {FinalizerKey, ILBFinalizerV2}

\* The controllers (callers), each holding its own snapshot of the object.
Callers == {1, 2}

Nil == "nil"

\* ------------------------------------------------------------ ObjectMeta
SeqsUpTo(n) == UNION {[1..k -> Tokens] : k \in 0..n}

\* meta_v1.ObjectMeta, restricted to the fields the file reads; a set
\* DeletionTimestamp is TRUE.
ObjectMeta(fin, dt) ==
  [Namespace |-> "ns", Name |-> "name", DeletionTimestamp |-> dt, Finalizers |-> fin]

Metas == {ObjectMeta(f, dt) : f \in SeqsUpTo(MaxLen), dt \in BOOLEAN}

\* ------------------------------------------------------- slice helpers
\* A presence test that looks at the first item only.
ContainsFirst(s, x) == Len(s) > 0 /\ s[1] = x

\* slice.ContainsString(slice, s, nil)
ContainsString(s, x) == \E i \in 1..Len(s) : s[i] = x

\* slice.RemoveString(slice, s, nil): a new slice without any item equal to s.
RemoveFirstOnly(s, x) ==
  IF ~ContainsString(s, x) THEN s
  ELSE LET i == CHOOSE j \in 1..Len(s) : s[j] = x /\ \A k \in 1..(j-1) : s[k] # x
       IN SubSeq(s, 1, i-1) \o SubSeq(s, i+1, Len(s))

\* A removal that cuts the slice at the first item equal to s.
RemoveFromFirst(s, x) ==
  IF ~ContainsString(s, x) THEN s
  ELSE LET i == CHOOSE j \in 1..Len(s) : s[j] = x /\ \A k \in 1..(j-1) : s[k] # x
       IN SubSeq(s, 1, i-1)

RemoveString(s, x) == SelectSeq(s, LAMBDA item : item # x)

ToSet(s) == {s[i] : i \in 1..Len(s)}

\* -------------------------------------------------------------- predicates
HasGivenFinalizer(m, key) == ContainsString(m.Finalizers, key)

IsDeletionCandidateForGivenFinalizer(m, key) ==
  m.DeletionTimestamp /\ HasGivenFinalizer(m, key)

\* HasFinalizer knowing the first Ingress token only.
HasFinalizerV1Only(m) == HasGivenFinalizer(m, FinalizerKey)

HasFinalizer(m) == HasGivenFinalizer(m, FinalizerKey) \/ HasGivenFinalizer(m, FinalizerKeyV2)

IsDeletionCandidate(m) ==
  \/ IsDeletionCandidateForGivenFinalizer(m, FinalizerKey)
  \/ IsDeletionCandidateForGivenFinalizer(m, FinalizerKeyV2)

NeedToAddIgnoringDeletion(m, key) == ~HasGivenFinalizer(m, key)

needToAddFinalizer(m, key) == ~m.DeletionTimestamp /\ ~HasGivenFinalizer(m, key)

\* ------------------------------------------------------------ patch layer
\* A key of a JSON object: left out, null, or holding a list.
AbsentKey == [state |-> "absent", list |-> <<>>]
NullKey == [state |-> "null", list |-> <<>>]
ListKey(l) == [state |-> "list", list |-> l]

\* json.Marshal of the object: `finalizers` is tagged omitempty, so an empty
\* (or nil) list leaves the key out of the encoding.
Marshal(m) ==
  [namespace |-> m.Namespace, name |-> m.Name,
   deletionTimestamp |-> m.DeletionTimestamp,
   finalizers |-> IF m.Finalizers = <<>> THEN AbsentKey ELSE ListKey(m.Finalizers)]

\* The registry's tokens in the order Go sorts their string values.
SortedTokens ==
  <<LegacyILBFinalizer, ILBFinalizerV2, FinalizerKey, FinalizerKeyV2, NegFinalizerKey>>

Count(s, x) == Len(SelectSeq(s, LAMBDA item : item = x))

Repeat(x, n) == [i \in 1..n |-> x]

Monus(a, b) == IF a > b THEN a - b ELSE 0

RECURSIVE Flatten(_)
Flatten(ss) == IF ss = <<>> THEN <<>> ELSE Head(ss) \o Flatten(Tail(ss))

\* deduplicateScalars: the first occurrence of each item, in order.
Dedup(s) == SelectSeq([i \in 1..Len(s) |->
                        IF \E j \in 1..(i-1) : s[j] = s[i] THEN Nil ELSE s[i]],
                      LAMBDA item : item # Nil)

\* diffListsOfScalars: both lists sorted and walked together; what only the
\* modified list holds is added, what only the original holds is deleted.
AddList(original, modified) ==
  Flatten([i \in 1..Len(SortedTokens) |->
             Repeat(SortedTokens[i],
                    Monus(Count(modified, SortedTokens[i]), Count(original, SortedTokens[i])))])

DeletionList(original, modified) ==
  Dedup(Flatten([i \in 1..Len(SortedTokens) |->
             Repeat(SortedTokens[i],
                    Monus(Count(original, SortedTokens[i]), Count(modified, SortedTokens[i])))]))

EmptyPatch == [finalizers |-> AbsentKey, deleteFromPrimitiveList |-> <<>>, setElementOrder |-> <<>>]

\* strategicpatch.CreateTwoWayMergePatch(oldData, newData, corev1.Service{}),
\* on metadata.finalizers (patchStrategy "merge"); every other key of the two
\* encodings is equal and contributes nothing.
\*   key only in modified   -> the key with the modified value
\*   key only in original   -> the key with null
\*   key in both, differing -> the added items, $deleteFromPrimitiveList and
\*                             $setElementOrder
CreateTwoWayMergePatch(oldData, newData) ==
  IF oldData.finalizers = newData.finalizers THEN EmptyPatch
  ELSE IF oldData.finalizers.state = "absent"
    THEN [EmptyPatch EXCEPT !.finalizers = newData.finalizers]
  ELSE IF newData.finalizers.state = "absent"
    THEN [EmptyPatch EXCEPT !.finalizers = NullKey]
  ELSE LET addList == AddList(oldData.finalizers.list, newData.finalizers.list)
       IN [finalizers |-> IF addList = <<>> THEN AbsentKey ELSE ListKey(addList),
           deleteFromPrimitiveList |->
             DeletionList(oldData.finalizers.list, newData.finalizers.list),
           setElementOrder |-> newData.finalizers.list]

\* -------------------------------------------- the store applying a patch
IndexOf(s, x) == IF ContainsString(s, x) THEN CHOOSE i \in 1..Len(s) :
                      s[i] = x /\ \A k \in 1..(i-1) : s[k] # x
                 ELSE 0

\* normalizeSliceOrder: the items found in `order` first, in its order.
NormalizeSliceOrder(toSort, order) ==
  SelectSeq(Dedup(order), LAMBDA item : ContainsString(toSort, item))
    \o SelectSeq(toSort, LAMBDA item : ~ContainsString(order, item))

\* mergeSortedSlice: server-only items (left) inserted into the patch items
\* (right), a left item going first only where the live list puts it first.
RECURSIVE MergeSortedSlice(_, _, _)
MergeSortedSlice(left, right, serverOrder) ==
  IF left = <<>> THEN right
  ELSE IF right = <<>> THEN left
  ELSE IF /\ IndexOf(serverOrder, Head(left)) > 0
          /\ IndexOf(serverOrder, Head(right)) > 0
          /\ IndexOf(serverOrder, Head(left)) < IndexOf(serverOrder, Head(right))
    THEN <<Head(left)>> \o MergeSortedSlice(Tail(left), right, serverOrder)
    ELSE <<Head(right)>> \o MergeSortedSlice(left, Tail(right), serverOrder)

NormalizeElementOrder(merged, patchOrder, serverOrder) ==
  MergeSortedSlice(
    NormalizeSliceOrder(SelectSeq(merged, LAMBDA item : ~ContainsString(patchOrder, item)),
                        serverOrder),
    NormalizeSliceOrder(SelectSeq(merged, LAMBDA item : ContainsString(patchOrder, item)),
                        patchOrder),
    serverOrder)

\* mergeSlice for a list of scalars with patchStrategy "merge".
MergeSlice(original, patchList) ==
  NormalizeElementOrder(Dedup(original \o patchList), patchList, original)

\* deleteFromSlice: every occurrence of every listed item goes.
DeleteFromSlice(current, toDelete) ==
  SelectSeq(current, LAMBDA item : ~ContainsString(toDelete, item))

\* The API server applying a strategic merge patch to the live object's
\* finalizers (`live`: the stored list; an empty stored list has no key).
StrategicMergeFinalizers(live, patch) ==
  IF patch.finalizers.state = "null" THEN <<>>
  ELSE LET patchList == patch.finalizers.list
           merged == IF patchList = <<>> THEN live
                     ELSE IF live = <<>> THEN patchList
                     ELSE MergeSlice(live, patchList)
           ordered == IF patch.setElementOrder = <<>> THEN merged
                      ELSE NormalizeElementOrder(merged, patch.setElementOrder, live)
       IN DeleteFromSlice(ordered, patch.deleteFromPrimitiveList)

\* sc.Patch(..., types.StrategicMergePatchType, patchBytes, ...) accepted by
\* the store: the live object with the patch merged in.
ApplyPatch(live, patch) ==
  [live EXCEPT !.Finalizers = StrategicMergeFinalizers(live.Finalizers, patch)]

\* ------------------------------------------------------ Go object graph
\* The objects a call works on: `arg` is the object the caller's pointer
\* refers to (possibly the shared informer cache's), `copy` the clone.
NewHeap(obj) == [arg |-> obj, copy |-> obj]

DeepCopyAliased(heap, src) == [ref |-> src, heap |-> heap]

\* x.DeepCopy(): a fresh object equal to the receiver.
DeepCopy(heap, src) == [ref |-> "copy", heap |-> [heap EXCEPT !.copy = heap[src]]]

NilObj == [isNil |-> TRUE, obj |-> ObjectMeta(<<>>, FALSE)]
Obj(m) == [isNil |-> FALSE, obj |-> m]

\* What the store may answer to a Patch request: the patch applied ("ok"), or
\* an error (not found, conflict, transport failure) with nothing applied.
StoreAnswers == {"ok", "rejected"}

\* A transport failure after the store applied the patch: the caller gets an
\* error although the write happened.
LostAnswer == "lost"

Request(old, new) ==
  [old |-> old, new |-> new, patch |-> CreateTwoWayMergePatch(Marshal(old), Marshal(new))]

Submit(old, new, live, answer) ==
  [err |-> answer # "ok",
   answer |-> answer,
   requests |-> <<Request(old, new)>>,
   store |-> IF answer \in {"ok", LostAnswer}
             THEN ApplyPatch(live, Request(old, new).patch) ELSE live]

SubmitWithRetry(oldSvc, newSvc, live, answer) ==
  IF answer = "ok" THEN Submit(oldSvc, newSvc, live, answer)
  ELSE [err |-> FALSE,
        answer |-> "ok",
        requests |-> <<Request(oldSvc, newSvc), Request(oldSvc, newSvc)>>,
        store |-> ApplyPatch(live, Request(oldSvc, newSvc).patch)]

\* patchServiceFinalizer sending the request and dropping the store's error.
SubmitIgnoringError(oldSvc, newSvc, live, answer) ==
  [Submit(oldSvc, newSvc, live, answer) EXCEPT !.err = FALSE]

\* patchServiceFinalizer(sc, oldSvc, newSvc): both objects marshalled, the
\* two-way merge patch computed and sent in one Patch request; the store's
\* error, if any, is the result.
patchServiceFinalizer(oldSvc, newSvc, live, answer) == Submit(oldSvc, newSvc, live, answer)

\* PatchIngressObjectMetadata(ingClient, ing, newObjectMetadata): the patch
\* layer for Ingress, a two-way merge patch of the ingress against itself
\* with the new metadata, sent in one request.
PatchIngressObjectMetadata(ing, newObjectMeta, live, answer) ==
  Submit(ing, newObjectMeta, live, answer)

NoWrite(heap, retObj, live) ==
  [after |-> heap.arg, ret |-> retObj, err |-> FALSE, answer |-> "none",
   requests |-> <<>>, store |-> live]

\* An ensure operation that returns success whatever the patch layer returned.
WrittenErrDropped(heap, retObj, p) ==
  [after |-> heap.arg, ret |-> retObj, err |-> FALSE,
   answer |-> p.answer, requests |-> p.requests, store |-> p.store]

\* An ensure operation that hands back its copy together with the error.
WrittenCopyOnError(heap, retObj, p) ==
  [after |-> heap.arg, ret |-> retObj, err |-> p.err,
   answer |-> p.answer, requests |-> p.requests, store |-> p.store]

Written(heap, retObj, p) ==
  [after |-> heap.arg, ret |-> IF p.err THEN NilObj ELSE retObj, err |-> p.err,
   answer |-> p.answer, requests |-> p.requests, store |-> p.store]

\* ---------------------------------------------------- ensure operations
\* Each takes the caller's object, the token, the store's live object and the
\* store's answer, and yields: the caller's object after the call (after),
\* the returned object (ret), the returned error (err), the Patch requests
\* sent (requests) and the live object afterwards (store).

\* EnsureFinalizer diffing the copy against itself instead of against ing.
EnsureFinalizerPatchFromCopy(ing, finalizerKey, live, answer) ==
  LET c == DeepCopy(NewHeap(ing), "arg")
      updated == c.ref
  IN IF needToAddFinalizer(c.heap.arg, finalizerKey)
     THEN LET h == [c.heap EXCEPT ![updated].Finalizers = Append(@, finalizerKey)]
          IN Written(h, Obj(h[updated]),
                     PatchIngressObjectMetadata(h[updated], h[updated], live, answer))
     ELSE NoWrite(c.heap, Obj(c.heap[updated]), live)

EnsureFinalizer(ing, finalizerKey, live, answer) ==
  LET c == DeepCopy(NewHeap(ing), "arg")
      updated == c.ref
  IN IF needToAddFinalizer(c.heap.arg, finalizerKey)
     THEN LET h == [c.heap EXCEPT ![updated].Finalizers = Append(@, finalizerKey)]
          IN Written(h, Obj(h[updated]),
                     PatchIngressObjectMetadata(h.arg, h[updated], live, answer))
     ELSE NoWrite(c.heap, Obj(c.heap[updated]), live)

EnsureDeleteFinalizer(ing, finalizerKey, live, answer) ==
  IF HasGivenFinalizer(ing, finalizerKey)
  THEN LET c == DeepCopy(NewHeap(ing), "arg")
           h == [c.heap EXCEPT ![c.ref].Finalizers = RemoveString(@, finalizerKey)]
       IN Written(h, NilObj, PatchIngressObjectMetadata(h.arg, h[c.ref], live, answer))
  ELSE NoWrite(NewHeap(ing), NilObj, live)

\* EnsureServiceFinalizer without its presence check.
EnsureServiceFinalizerUnchecked(service, key, live, answer) ==
  LET c == DeepCopy(NewHeap(service), "arg")
      h == [c.heap EXCEPT ![c.ref].Finalizers = Append(@, key)]
  IN Written(h, NilObj, patchServiceFinalizer(h.arg, h[c.ref], live, answer))

\* EnsureServiceFinalizer guarded the way EnsureFinalizer is.
EnsureServiceFinalizerGuarded(service, key, live, answer) ==
  IF ~needToAddFinalizer(service, key)
  THEN NoWrite(NewHeap(service), NilObj, live)
  ELSE LET c == DeepCopy(NewHeap(service), "arg")
           h == [c.heap EXCEPT ![c.ref].Finalizers = Append(@, key)]
       IN Written(h, NilObj, patchServiceFinalizer(h.arg, h[c.ref], live, answer))

\* EnsureServiceFinalizer passing the two objects to the patch in the wrong order.
EnsureServiceFinalizerSwapped(service, key, live, answer) ==
  IF HasGivenFinalizer(service, key)
  THEN NoWrite(NewHeap(service), NilObj, live)
  ELSE LET c == DeepCopy(NewHeap(service), "arg")
           h == [c.heap EXCEPT ![c.ref].Finalizers = Append(@, key)]
       IN Written(h, NilObj, patchServiceFinalizer(h[c.ref], h.arg, live, answer))

\* EnsureServiceFinalizer deciding on the stored object instead of its argument.
EnsureServiceFinalizerLive(service, key, live, answer) ==
  IF HasGivenFinalizer(live, key)
  THEN NoWrite(NewHeap(service), NilObj, live)
  ELSE LET c == DeepCopy(NewHeap(service), "arg")
           h == [c.heap EXCEPT ![c.ref].Finalizers = Append(@, key)]
       IN Written(h, NilObj, patchServiceFinalizer(h.arg, h[c.ref], live, answer))

EnsureServiceFinalizer(service, key, live, answer) ==
  IF HasGivenFinalizer(service, key)
  THEN NoWrite(NewHeap(service), NilObj, live)
  ELSE LET c == DeepCopy(NewHeap(service), "arg")
           updated == c.ref
           h == [c.heap EXCEPT ![updated].Finalizers = Append(@, key)]
       IN Written(h, NilObj, patchServiceFinalizer(h.arg, h[updated], live, answer))

\* EnsureDeleteServiceFinalizer with the presence check of EnsureServiceFinalizer.
EnsureDeleteServiceFinalizerInverted(service, key, live, answer) ==
  IF HasGivenFinalizer(service, key)
  THEN NoWrite(NewHeap(service), NilObj, live)
  ELSE LET c == DeepCopy(NewHeap(service), "arg")
           h == [c.heap EXCEPT ![c.ref].Finalizers = RemoveString(@, key)]
       IN Written(h, NilObj, patchServiceFinalizer(h.arg, h[c.ref], live, answer))

EnsureDeleteServiceFinalizer(service, key, live, answer) ==
  IF ~HasGivenFinalizer(service, key)
  THEN NoWrite(NewHeap(service), NilObj, live)
  ELSE LET c == DeepCopy(NewHeap(service), "arg")
           updated == c.ref
           h == [c.heap EXCEPT ![updated].Finalizers = RemoveString(@, key)]
       IN Written(h, NilObj, patchServiceFinalizer(h.arg, h[updated], live, answer))

\* ---------------------------------------------------------- state machine
VARIABLES
  kind,   \* "Ingress" or "Service": the kind of the stored object
  store,  \* the object as the API server holds it
  snap,   \* snap[c]: the object controller c holds (its informer cache's)
  last,   \* record of the most recent ensure call
  prev,   \* record of the ensure call before it
  retry,  \* the reconciliation loop retrying one ensure operation
  pred    \* the last evaluation of the presence predicates

vars == <<kind, store, snap, last, prev, retry, pred>>

NoCall ==
  [valid |-> FALSE, caller |-> 0, op |-> "none", key |-> "none",
   input |-> ObjectMeta(<<>>, FALSE), after |-> ObjectMeta(<<>>, FALSE),
   ret |-> NilObj, err |-> FALSE, answer |-> "none", requests |-> <<>>,
   storeBefore |-> ObjectMeta(<<>>, FALSE), storeAfter |-> ObjectMeta(<<>>, FALSE)]

CallRecord(c, op, key, r) ==
  [valid |-> TRUE, caller |-> c, op |-> op, key |-> key,
   input |-> snap[c], after |-> r.after, ret |-> r.ret, err |-> r.err,
   answer |-> r.answer, requests |-> r.requests, storeBefore |-> store, storeAfter |-> r.store]

\* No reconciliation loop running.
NoRetry == [pc |-> "off", op |-> "none", key |-> "none", rejects |-> 0, failed |-> 0]

\* No predicate evaluated yet.
NoEval ==
  [valid |-> FALSE, m |-> ObjectMeta(<<>>, FALSE), key |-> "none",
   hasGiven |-> FALSE, candidateGiven |-> FALSE, has |-> FALSE, candidate |-> FALSE]

Init ==
  /\ kind \in {"Ingress", "Service"}
  /\ store \in {m \in Metas : ~m.DeletionTimestamp}
  /\ snap = [c \in Callers |-> store]
  /\ last = NoCall
  /\ prev = NoCall
  /\ retry = NoRetry
  /\ pred = NoEval

\* The bound of the model: no list grows past MaxLen.
WithinBounds(r) ==
  /\ Len(r.store.Finalizers) <= MaxLen
  /\ Len(r.after.Finalizers) <= MaxLen
  /\ Len(r.ret.obj.Finalizers) <= MaxLen
  /\ \A i \in 1..Len(r.requests) : Len(r.requests[i].new.Finalizers) <= MaxLen

\* The call about to be made by c follows the last call: same controller,
\* made on the object as the last call left it (the stored object, or the
\* copy the last call returned), the store untouched by anyone else since the
\* last call began.
Follows(c) ==
  /\ last.valid /\ last.caller = c
  /\ last.input = last.storeBefore
  /\ last.storeAfter = store
  /\ \/ snap[c] = store
     \/ ~last.ret.isNil /\ snap[c] = last.ret.obj

\* The call about to be made by c races the last call: another controller,
\* working from the snapshot the last call worked from.
Races(c) ==
  /\ last.valid /\ last.caller # c
  /\ last.input = last.storeBefore
  /\ last.storeAfter = store
  /\ snap[c] = last.input

Call(c, op, key, r) ==
  /\ WithinBounds(r)
  /\ store' = r.store
  /\ snap' = [snap EXCEPT ![c] = r.after]
  /\ last' = CallRecord(c, op, key, r)
  /\ prev' = IF Follows(c) \/ Races(c) THEN last ELSE NoCall
  /\ UNCHANGED kind

DoEnsureFinalizer(c, key, answer) ==
  /\ kind = "Ingress"
  /\ Call(c, "EnsureFinalizer", key, EnsureFinalizer(snap[c], key, store, answer))
  /\ UNCHANGED <<retry, pred>>

DoEnsureDeleteFinalizer(c, key, answer) ==
  /\ kind = "Ingress"
  /\ Call(c, "EnsureDeleteFinalizer", key,
          EnsureDeleteFinalizer(snap[c], key, store, answer))
  /\ UNCHANGED <<retry, pred>>

DoEnsureServiceFinalizer(c, key, answer) ==
  /\ kind = "Service"
  /\ Call(c, "EnsureServiceFinalizer", key,
          EnsureServiceFinalizer(snap[c], key, store, answer))
  /\ UNCHANGED <<retry, pred>>

DoEnsureDeleteServiceFinalizer(c, key, answer) ==
  /\ kind = "Service"
  /\ Call(c, "EnsureDeleteServiceFinalizer", key,
          EnsureDeleteServiceFinalizer(snap[c], key, store, answer))
  /\ UNCHANGED <<retry, pred>>

\* The controller's informer delivers the stored object.
Sync(c) ==
  /\ snap[c] # store
  /\ snap' = [snap EXCEPT ![c] = store]
  /\ UNCHANGED <<kind, store, last, prev, retry, pred>>

\* The controller goes on with the object EnsureFinalizer returned.
Adopt(c) ==
  /\ last.valid /\ last.caller = c /\ ~last.ret.isNil
  /\ snap[c] # last.ret.obj
  /\ snap' = [snap EXCEPT ![c] = last.ret.obj]
  /\ UNCHANGED <<kind, store, last, prev, retry, pred>>

\* The platform marks the object for deletion.
MarkDeleted ==
  /\ ~store.DeletionTimestamp
  /\ store' = [store EXCEPT !.DeletionTimestamp = TRUE]
  /\ UNCHANGED <<kind, snap, last, prev, retry, pred>>

Step(c) ==
  \/ \E key \in Tokens, answer \in StoreAnswers : DoEnsureFinalizer(c, key, answer)
  \/ \E key \in Tokens, answer \in StoreAnswers : DoEnsureDeleteFinalizer(c, key, answer)
  \/ \E key \in Tokens, answer \in StoreAnswers : DoEnsureServiceFinalizer(c, key, answer)
  \/ \E key \in Tokens, answer \in StoreAnswers :
       DoEnsureDeleteServiceFinalizer(c, key, answer)
  \/ Sync(c)
  \/ Adopt(c)

\* One controller reconciling the object, the platform deleting it.
Next ==
  \/ Step(1)
  \/ MarkDeleted

Spec == Init /\ [][Next]_vars

\* Two controllers reconciling the same object, each from its own snapshot.
NextRace ==
  \/ \E c \in Callers : Step(c)
  \/ MarkDeleted

SpecRace == Init /\ [][NextRace]_vars


\* ------------------------------------------------- reconciliation loop
\* A controller that calls one ensure operation and, on every error, reads
\* the object again from the store and calls the same operation again.
OpsOfKind(k) ==
  IF k = "Ingress" THEN {"EnsureFinalizer", "EnsureDeleteFinalizer"}
  ELSE {"EnsureServiceFinalizer", "EnsureDeleteServiceFinalizer"}

RunOp(op, obj, key, live, answer) ==
  CASE op = "EnsureFinalizer" -> EnsureFinalizer(obj, key, live, answer)
    [] op = "EnsureDeleteFinalizer" -> EnsureDeleteFinalizer(obj, key, live, answer)
    [] op = "EnsureServiceFinalizer" -> EnsureServiceFinalizer(obj, key, live, answer)
    [] op = "EnsureDeleteServiceFinalizer" ->
         EnsureDeleteServiceFinalizer(obj, key, live, answer)

RetryAnswers == StoreAnswers \cup {LostAnswer}

\* The outcome of every call the loop can make, computed once.
Outcome ==
  [op \in OpsOfKind("Ingress") \cup OpsOfKind("Service"), obj \in Metas,
   key \in Tokens, live \in Metas, answer \in RetryAnswers |->
     RunOp(op, obj, key, live, answer)]

InitRetry ==
  /\ kind \in {"Ingress", "Service"}
  /\ store \in Metas
  /\ snap = [c \in Callers |-> store]
  /\ last = NoCall
  /\ prev = NoCall
  /\ pred = NoEval
  /\ retry \in {[pc |-> "call", op |-> op, key |-> key, rejects |-> n, failed |-> 0] :
                  op \in OpsOfKind(kind), key \in Tokens, n \in 0..MaxRejects}
  /\ retry.op \in {"EnsureFinalizer", "EnsureServiceFinalizer"} =>
       Len(store.Finalizers) < MaxLen

\* One pass of the loop; the store fails at most retry.rejects more requests.
RetryCall(answer) ==
  /\ retry.pc = "call"
  /\ answer # "ok" => retry.rejects > 0
  /\ \E r \in {Outcome[retry.op, snap[1], retry.key, store, answer]} :
        /\ Call(1, retry.op, retry.key, r)
        /\ retry' = [retry EXCEPT
                       !.pc = IF r.err THEN "reread" ELSE "done",
                       !.rejects = IF r.err THEN @ - 1 ELSE @,
                       !.failed = IF r.err THEN @ + 1 ELSE @]
  /\ UNCHANGED pred

\* The resource is enqueued again and read from the store.
RetryReread ==
  /\ retry.pc = "reread"
  /\ snap' = [snap EXCEPT ![1] = store]
  /\ retry' = [retry EXCEPT !.pc = "call"]
  /\ UNCHANGED <<kind, store, last, prev, pred>>

NextRetry ==
  \/ \E answer \in RetryAnswers : RetryCall(answer)
  \/ RetryReread

\* The loop keeps running until a call returns without error.
SpecRetry == InitRetry /\ [][NextRetry]_vars /\ WF_vars(NextRetry)

\* ------------------------------------------------------ chained calls
\* One controller whose every call is made on the object as it stands in the
\* store, starting from an object that holds no token twice.
NoDuplicates(s) == \A i, j \in 1..Len(s) : s[i] = s[j] => i = j

InitChain == Init /\ NoDuplicates(store.Finalizers)

FreshCall(c) ==
  /\ snap[c] = store
  /\ \/ \E key \in Tokens, answer \in StoreAnswers : DoEnsureFinalizer(c, key, answer)
     \/ \E key \in Tokens, answer \in StoreAnswers : DoEnsureDeleteFinalizer(c, key, answer)
     \/ \E key \in Tokens, answer \in StoreAnswers : DoEnsureServiceFinalizer(c, key, answer)
     \/ \E key \in Tokens, answer \in StoreAnswers :
          DoEnsureDeleteServiceFinalizer(c, key, answer)

NextChain ==
  \/ FreshCall(1)
  \/ Sync(1)
  \/ Adopt(1)
  \/ MarkDeleted

SpecChain == InitChain /\ [][NextChain]_vars

\* ------------------------------------------------------ stale snapshots
\* One call made from a snapshot taken at any earlier time: the store may hold
\* anything by now, except that a DeletionTimestamp, once set, stays set.
InitStale ==
  /\ kind \in {"Ingress", "Service"}
  /\ store \in Metas
  /\ snap \in [Callers -> Metas]
  /\ snap[2] = store
  /\ snap[1].DeletionTimestamp => store.DeletionTimestamp
  /\ last = NoCall
  /\ prev = NoCall
  /\ retry = NoRetry
  /\ pred = NoEval

StaleCall(op, key, answer) ==
  /\ ~last.valid
  /\ op \in OpsOfKind(kind)
  /\ Call(1, op, key, RunOp(op, snap[1], key, store, answer))
  /\ UNCHANGED <<retry, pred>>

NextStale ==
  \E op \in OpsOfKind("Ingress") \cup OpsOfKind("Service"), key \in Tokens,
     answer \in StoreAnswers : StaleCall(op, key, answer)

SpecStale == InitStale /\ [][NextStale]_vars

\* ------------------------------------------------ predicate evaluation
AllTokens == {FinalizerKey, FinalizerKeyV2, LegacyILBFinalizer, ILBFinalizerV2, NegFinalizerKey}

AllMetas ==
  {ObjectMeta(f, dt) : f \in UNION {[1..k -> AllTokens] : k \in 0..MaxLen}, dt \in BOOLEAN}

InitPred ==
  /\ kind = "Ingress"
  /\ store = ObjectMeta(<<>>, FALSE)
  /\ snap = [c \in Callers |-> store]
  /\ last = NoCall
  /\ prev = NoCall
  /\ retry = NoRetry
  /\ pred = NoEval

\* The four predicates evaluated on one metadata and one token.
Evaluate(m, key) ==
  /\ pred' = [valid |-> TRUE, m |-> m, key |-> key,
              hasGiven |-> HasGivenFinalizer(m, key),
              candidateGiven |-> IsDeletionCandidateForGivenFinalizer(m, key),
              has |-> HasFinalizer(m),
              candidate |-> IsDeletionCandidate(m)]
  /\ UNCHANGED <<kind, store, snap, last, prev, retry>>

NextPred == \E m \in AllMetas, key \in AllTokens : Evaluate(m, key)

SpecPred == InitPred /\ [][NextPred]_vars

TypeOK ==
  /\ kind \in {"Ingress", "Service"}
  /\ store \in Metas
  /\ \A c \in Callers : snap[c] \in Metas

\* ------------------------------------------------------------- properties
EnsurePresentOps == {"EnsureFinalizer", "EnsureServiceFinalizer"}
EnsureAbsentOps == {"EnsureDeleteFinalizer", "EnsureDeleteServiceFinalizer"}

AbsentOpOf(op) ==
  IF op = "EnsureFinalizer" THEN "EnsureDeleteFinalizer" ELSE "EnsureDeleteServiceFinalizer"

\* The last two calls are one controller's, the second made on the object as
\* the first left it, nobody else writing in between.
Consecutive == prev.valid /\ last.valid /\ prev.caller = last.caller

\* Two ensure-present calls in a row with the same token.
TwiceEnsured ==
  /\ Consecutive
  /\ prev.op \in EnsurePresentOps /\ last.op = prev.op /\ last.key = prev.key

\* The first call of the pair had something to add.
FirstHadToAdd ==
  /\ ~HasGivenFinalizer(prev.input, prev.key)
  /\ prev.op = "EnsureFinalizer" => ~prev.input.DeletionTimestamp

\* C1 as stated: ensure-present called twice in a row with the same token
\* leaves the same finalizer list after the first and after the second call,
\* and the store receives exactly one write over the two calls, none of them
\* from the second call.
C1_ExactlyOneWrite ==
  TwiceEnsured =>
    /\ last.storeAfter.Finalizers = prev.storeAfter.Finalizers
    /\ Len(prev.requests) + Len(last.requests) = 1
    /\ last.requests = <<>>

\* C1 amended: when the first of two consecutive ensure-present calls with the
\* same token returns no error, the second call submits no patch and returns
\* no error, the finalizer list is the same after both calls, and the store
\* receives at most one write over the two calls: one when the first call had
\* to add the token, none when it had not.
C1_Idempotent ==
  (TwiceEnsured /\ ~prev.err) =>
    /\ last.requests = <<>>
    /\ ~last.err
    /\ last.storeAfter.Finalizers = prev.storeAfter.Finalizers
    /\ last.op = "EnsureFinalizer" => last.ret.obj.Finalizers = last.input.Finalizers
    /\ Len(prev.requests) + Len(last.requests) = IF FirstHadToAdd THEN 1 ELSE 0

C1_Witness ==
  /\ TwiceEnsured /\ ~prev.err
  /\ last.op = "EnsureServiceFinalizer"
  /\ Len(prev.requests) = 1
  /\ last.requests = <<>>
  /\ HasGivenFinalizer(last.storeAfter, last.key)

\* Ensure-present followed by ensure-absent with the same token, every write
\* accepted.
EnsuredThenRemoved ==
  /\ Consecutive
  /\ prev.op \in EnsurePresentOps /\ last.op = AbsentOpOf(prev.op)
  /\ last.key = prev.key
  /\ ~prev.err /\ ~last.err

\* C2 as stated: ensure-present(T) followed by ensure-absent(T) leaves a list
\* with the same set of tokens as the original list, for every resource and T.
C2_SameSetAlways ==
  EnsuredThenRemoved =>
    ToSet(last.storeAfter.Finalizers) = ToSet(prev.input.Finalizers)

\* C2 amended: ensure-present(T) followed by ensure-absent(T) leaves a list
\* whose set of tokens is the original set without T; it is the original set
\* exactly when the original list did not hold T.
C2_Symmetry ==
  EnsuredThenRemoved =>
    /\ ToSet(last.storeAfter.Finalizers) = ToSet(prev.input.Finalizers) \ {prev.key}
    /\ (ToSet(last.storeAfter.Finalizers) = ToSet(prev.input.Finalizers))
         <=> ~HasGivenFinalizer(prev.input, prev.key)

C2_Witness ==
  /\ EnsuredThenRemoved
  /\ last.op = "EnsureDeleteServiceFinalizer"
  /\ Len(prev.requests) = 1 /\ Len(last.requests) = 1
  /\ prev.input.Finalizers # <<>>
  /\ ToSet(last.storeAfter.Finalizers) = ToSet(prev.input.Finalizers)

\* C3: EnsureFinalizer on an Ingress whose DeletionTimestamp is set submits no
\* patch and returns, without error, a copy whose metadata equals the input's.
C3_TerminatingIngressNoOp ==
  (last.valid /\ last.op = "EnsureFinalizer" /\ last.input.DeletionTimestamp) =>
    /\ last.requests = <<>>
    /\ ~last.err
    /\ ~last.ret.isNil
    /\ last.ret.obj = last.input
    /\ last.storeAfter = last.storeBefore

C3_Witness ==
  /\ last.valid /\ last.op = "EnsureFinalizer" /\ last.input.DeletionTimestamp
  /\ ~HasGivenFinalizer(last.input, last.key)
  /\ last.input.Finalizers # <<>>
  /\ last.requests = <<>>
  /\ last.ret.obj = last.input

\* C4 as stated: EnsureServiceFinalizer on a service whose DeletionTimestamp
\* is set performs no store write, whether or not the service carries the token.
C4_TerminatingServiceNoOp ==
  (last.valid /\ last.op = "EnsureServiceFinalizer" /\ last.input.DeletionTimestamp) =>
    last.requests = <<>>

\* C4 amended: EnsureServiceFinalizer does not look at the DeletionTimestamp;
\* on a terminating service it performs no store write exactly when the
\* service already carries the token, and otherwise submits one patch that
\* appends the token.
C4_TerminatingServiceWrites ==
  (last.valid /\ last.op = "EnsureServiceFinalizer" /\ last.input.DeletionTimestamp) =>
    /\ (last.requests = <<>>) <=> HasGivenFinalizer(last.input, last.key)
    /\ ~HasGivenFinalizer(last.input, last.key) =>
         /\ Len(last.requests) = 1
         /\ last.requests[1].old = last.input
         /\ last.requests[1].new.Finalizers = Append(last.input.Finalizers, last.key)
         /\ last.requests[1].new.DeletionTimestamp

C4_Witness ==
  /\ last.valid /\ last.op = "EnsureServiceFinalizer" /\ last.input.DeletionTimestamp
  /\ ~HasGivenFinalizer(last.input, last.key)
  /\ Len(last.requests) = 1
  /\ ~last.err
  /\ HasGivenFinalizer(last.storeAfter, last.key)

\* C5: EnsureFinalizer on an Ingress with no DeletionTimestamp and without the
\* token submits exactly one patch, old = the input, new = the input with the
\* token appended, and on success returns the input's finalizers followed by
\* the token; when the token is already present it submits nothing and returns
\* the input's finalizers.
C5_AddPath ==
  (last.valid /\ last.op = "EnsureFinalizer") =>
    /\ (~last.input.DeletionTimestamp /\ ~HasGivenFinalizer(last.input, last.key)) =>
         /\ Len(last.requests) = 1
         /\ last.requests[1].old = last.input
         /\ last.requests[1].new =
              [last.input EXCEPT !.Finalizers = Append(last.input.Finalizers, last.key)]
         /\ ~last.err =>
              /\ ~last.ret.isNil
              /\ last.ret.obj.Finalizers = last.input.Finalizers \o <<last.key>>
    /\ HasGivenFinalizer(last.input, last.key) =>
         /\ last.requests = <<>>
         /\ ~last.ret.isNil
         /\ last.ret.obj.Finalizers = last.input.Finalizers

C5_Witness ==
  /\ last.valid /\ last.op = "EnsureFinalizer"
  /\ last.input.Finalizers = <<>>
  /\ ~last.input.DeletionTimestamp
  /\ Len(last.requests) = 1
  /\ last.ret.obj.Finalizers = <<last.key>>
  /\ last.storeAfter.Finalizers = <<last.key>>

\* C6: ensure-absent succeeds with no store write when the token is absent
\* from the input; otherwise it submits exactly one patch whose new snapshot
\* holds the input's finalizers without any occurrence of the token, the
\* others kept in order.
C6_EnsureAbsent ==
  (last.valid /\ last.op \in EnsureAbsentOps) =>
    /\ ~HasGivenFinalizer(last.input, last.key) =>
         last.requests = <<>> /\ ~last.err
    /\ HasGivenFinalizer(last.input, last.key) =>
         /\ Len(last.requests) = 1
         /\ last.requests[1].old = last.input
         /\ ~HasGivenFinalizer(last.requests[1].new, last.key)
         /\ last.requests[1].new.Finalizers =
              SelectSeq(last.input.Finalizers, LAMBDA t : t # last.key)

C6_Witness ==
  /\ last.valid /\ last.op \in EnsureAbsentOps
  /\ Count(last.input.Finalizers, last.key) = 2
  /\ Len(last.requests) = 1
  /\ last.requests[1].new.Finalizers = <<>>

\* EnsureServiceFinalizer(B) then EnsureDeleteServiceFinalizer(A) on a
\* service that held just A, both accepted.
AddBThenRemoveA ==
  /\ Consecutive
  /\ prev.op = "EnsureServiceFinalizer" /\ last.op = "EnsureDeleteServiceFinalizer"
  /\ Len(prev.input.Finalizers) = 1
  /\ prev.key # prev.input.Finalizers[1]
  /\ last.key = prev.input.Finalizers[1]
  /\ ~prev.err /\ ~last.err

\* C7: EnsureServiceFinalizer submits no patch when the service carries the
\* token and otherwise exactly one patch whose new snapshot holds the input's
\* finalizers followed by the token; from [A], EnsureServiceFinalizer(B) gives
\* [A,B] and a following EnsureDeleteServiceFinalizer(A) gives [B].
C7_ServiceTokens ==
  /\ (last.valid /\ last.op = "EnsureServiceFinalizer") =>
       IF HasGivenFinalizer(last.input, last.key)
       THEN last.requests = <<>>
       ELSE /\ Len(last.requests) = 1
            /\ last.requests[1].old = last.input
            /\ last.requests[1].new.Finalizers = last.input.Finalizers \o <<last.key>>
  /\ AddBThenRemoveA =>
       /\ prev.storeAfter.Finalizers = <<last.key, prev.key>>
       /\ last.storeAfter.Finalizers = <<prev.key>>

C7_Witness ==
  /\ AddBThenRemoveA
  /\ prev.input.Finalizers = <<FinalizerKey>>
  /\ prev.key = ILBFinalizerV2
  /\ last.storeAfter.Finalizers = <<ILBFinalizerV2>>

\* C8: no ensure operation changes the object the caller passed in: after the
\* call, whatever its outcome, the caller's object is what it was before.
C8_CallerObjectUntouched ==
  last.valid => last.after = last.input

C8_Witness ==
  /\ last.valid
  /\ Len(last.requests) = 1 /\ ~last.err
  /\ last.after = last.input
  /\ last.storeAfter.Finalizers # last.input.Finalizers
  /\ snap[last.caller] = last.input

\* Another controller's accepted Service patch, for a different token, reached
\* the store after the last caller's snapshot was taken and before the last
\* caller's own Service patch was accepted.
PatchedAfterOtherWriter ==
  /\ prev.valid /\ last.valid /\ prev.caller # last.caller
  /\ prev.op \in {"EnsureServiceFinalizer", "EnsureDeleteServiceFinalizer"}
  /\ last.op \in {"EnsureServiceFinalizer", "EnsureDeleteServiceFinalizer"}
  /\ prev.key # last.key
  /\ prev.requests # <<>> /\ ~prev.err
  /\ last.requests # <<>> /\ ~last.err

\* C9: a patch does not clobber other writers: what another controller did to
\* a token other than the one being ensured, after the caller took its
\* snapshot, is still in the store once the caller's patch is applied,
\* together with the caller's own change.
C9_NoClobber ==
  PatchedAfterOtherWriter =>
    /\ \A u \in Tokens \ {last.key} :
         HasGivenFinalizer(last.storeAfter, u) <=> HasGivenFinalizer(last.storeBefore, u)
    /\ HasGivenFinalizer(last.storeAfter, prev.key) <=> prev.op = "EnsureServiceFinalizer"
    /\ HasGivenFinalizer(last.storeAfter, last.key) <=> last.op = "EnsureServiceFinalizer"

\* The part of C9 about two additions: two controllers that run
\* EnsureServiceFinalizer with distinct tokens from the same snapshot leave
\* both tokens in the store.
C9_BothAdded ==
  (PatchedAfterOtherWriter /\ prev.op = "EnsureServiceFinalizer"
     /\ last.op = "EnsureServiceFinalizer") =>
    /\ HasGivenFinalizer(last.storeAfter, prev.key)
    /\ HasGivenFinalizer(last.storeAfter, last.key)

\* C10: every ensure call submits at most one Patch request, whatever the
\* input and the store's answer; a rejected request is not sent again.
C10_AtMostOneWrite ==
  last.valid => Len(last.requests) <= 1

C10_Witness ==
  /\ last.valid
  /\ last.err
  /\ Len(last.requests) = 1
  /\ last.storeAfter = last.storeBefore

\* The loop has ended and the store holds what the operation ensures: the
\* token for ensure-present (EnsureFinalizer leaves a terminating Ingress
\* alone), no token for ensure-absent.
RetryGoal ==
  /\ retry.pc = "done"
  /\ retry.op = "EnsureFinalizer" =>
       (HasGivenFinalizer(store, retry.key) \/ store.DeletionTimestamp)
  /\ retry.op = "EnsureServiceFinalizer" => HasGivenFinalizer(store, retry.key)
  /\ retry.op \in EnsureAbsentOps => ~HasGivenFinalizer(store, retry.key)

\* No step of the loop makes the token occur more often than once, or more
\* often than it already did.
NoExtraOccurrence ==
  Count(store'.Finalizers, retry.key) <=
    (IF Count(store.Finalizers, retry.key) > 1
     THEN Count(store.Finalizers, retry.key) ELSE 1)

\* C11: a caller that on every error reads the resource again and calls the
\* same ensure operation again, the store failing only finitely many requests,
\* eventually stops with the token present in the store (ensure-present on a
\* resource that is not terminating) or absent (ensure-absent), and no retry
\* ever makes the stored list hold the token more than once.
C11_RetryConverges ==
  /\ <>[]RetryGoal
  /\ [][NoExtraOccurrence]_vars

C11_Witness ==
  /\ retry.pc = "done"
  /\ retry.failed = MaxRejects
  /\ retry.op = "EnsureServiceFinalizer"
  /\ last.valid /\ last.requests = <<>>
  /\ Count(store.Finalizers, retry.key) = 1

\* C12: an ensure operation returns an error exactly when it submitted a patch
\* and the store rejected it; when no write is needed, or the patch is
\* accepted, it returns without error.
C12_FailuresSurfaced ==
  last.valid =>
    /\ (last.requests # <<>> /\ last.answer = "rejected") => last.err
    /\ (last.requests = <<>> \/ last.answer = "ok") => ~last.err

C12_Witness ==
  /\ last.valid /\ last.op = "EnsureDeleteServiceFinalizer"
  /\ last.requests # <<>> /\ last.answer = "rejected"
  /\ last.err
  /\ HasGivenFinalizer(last.storeAfter, last.key)

\* The tokens in the metadata the predicates were evaluated on.
PredTokens == {pred.m.Finalizers[i] : i \in 1..Len(pred.m.Finalizers)}

\* C13: HasGivenFinalizer(M,T) is true exactly when T occurs in M.Finalizers,
\* wherever and however often, and IsDeletionCandidateForGivenFinalizer(M,T)
\* exactly when M.DeletionTimestamp is set and T occurs in M.Finalizers.
C13_GivenFinalizerPredicates ==
  pred.valid =>
    /\ pred.hasGiven <=> pred.key \in PredTokens
    /\ pred.candidateGiven <=> (pred.m.DeletionTimestamp /\ pred.key \in PredTokens)

C13_Witness ==
  /\ pred.valid
  /\ Len(pred.m.Finalizers) = 2
  /\ pred.m.Finalizers[1] # pred.key /\ pred.m.Finalizers[2] = pred.key
  /\ pred.m.DeletionTimestamp
  /\ pred.hasGiven /\ pred.candidateGiven

\* C14: HasFinalizer(M) is true exactly when M.Finalizers holds FinalizerKey or
\* FinalizerKeyV2, IsDeletionCandidate(M) equals DeletionTimestamp set and
\* HasFinalizer(M), and the tokens of the other families make neither true.
C14_IngressPredicates ==
  pred.valid =>
    /\ pred.has <=> (PredTokens \cap {FinalizerKey, FinalizerKeyV2} # {})
    /\ pred.candidate <=> (pred.m.DeletionTimestamp /\ pred.has)
    /\ PredTokens \subseteq {LegacyILBFinalizer, ILBFinalizerV2, NegFinalizerKey} =>
         (~pred.has /\ ~pred.candidate)

C14_Witness ==
  /\ pred.valid
  /\ pred.m.Finalizers = <<LegacyILBFinalizer, FinalizerKeyV2>>
  /\ pred.m.DeletionTimestamp
  /\ pred.has /\ pred.candidate

\* The slice without the items equal to key, the others in order.
Others(s, key) == SelectSeq(s, LAMBDA t : t # key)

\* An object differing from the input in occurrences of key at most.
SameButKey(m, input, key) ==
  /\ Others(m.Finalizers, key) = Others(input.Finalizers, key)
  /\ \A u \in Tokens \ {key} : Count(m.Finalizers, u) = Count(input.Finalizers, u)
  /\ m.DeletionTimestamp = input.DeletionTimestamp
  /\ m.Namespace = input.Namespace
  /\ m.Name = input.Name

C16_NoDuplicatesIntroduced ==
  /\ NoDuplicates(store.Finalizers)
  /\ NoDuplicates(snap[1].Finalizers)
  /\ \A i \in 1..Len(last.requests) : NoDuplicates(last.requests[i].new.Finalizers)
  /\ ~last.ret.isNil => NoDuplicates(last.ret.obj.Finalizers)

C16_Witness ==
  /\ Consecutive
  /\ prev.op = "EnsureServiceFinalizer" /\ last.op = "EnsureServiceFinalizer"
  /\ prev.key # last.key
  /\ Len(prev.requests) = 1 /\ Len(last.requests) = 1
  /\ ~prev.err /\ ~last.err
  /\ Len(store.Finalizers) = 2

\* C17: EnsureFinalizer returns an object exactly when it returns no error;
\* when its patch is rejected the copy with the token appended is not
\* returned; and a copy returned carries the token exactly when the input
\* carried it or had no DeletionTimestamp.
C17_ObjectOrError ==
  (last.valid /\ last.op = "EnsureFinalizer") =>
    /\ last.ret.isNil <=> last.err
    /\ (last.requests # <<>> /\ last.answer = "rejected") => last.ret = NilObj
    /\ ~last.err =>
         (HasGivenFinalizer(last.ret.obj, last.key) <=>
            (HasGivenFinalizer(last.input, last.key) \/ ~last.input.DeletionTimestamp))

C17_Witness ==
  /\ last.valid /\ last.op = "EnsureFinalizer"
  /\ Len(last.requests) = 1 /\ last.answer = "rejected"
  /\ last.err /\ last.ret.isNil
  /\ last.requests[1].new.Finalizers = Append(last.input.Finalizers, last.key)

\* The call was made from a snapshot that is not what the store holds.
StaleSnapshot == last.valid /\ last.input # last.storeBefore

\* The call's requests are what the same operation sends from the same
\* snapshot and token whatever the store holds and answers.
SameRequestsWhateverStore ==
  \A live \in Metas, answer \in StoreAnswers :
    Outcome[last.op, last.input, last.key, live, answer].requests = last.requests

\* C18 as stated: the requests of a call depend on the caller's snapshot and
\* token only; an ensure-present call from a stale snapshot that lacks the
\* token submits a patch even when the store holds the token, and one from a
\* stale snapshot that has the token submits nothing even when the store has
\* lost it.
C18_StaleLackingAlwaysWrites ==
  last.valid =>
    /\ SameRequestsWhateverStore
    /\ (StaleSnapshot /\ last.op \in EnsurePresentOps
          /\ ~HasGivenFinalizer(last.input, last.key)
          /\ HasGivenFinalizer(last.storeBefore, last.key)) => Len(last.requests) = 1
    /\ (StaleSnapshot /\ last.op \in EnsurePresentOps
          /\ HasGivenFinalizer(last.input, last.key)
          /\ ~HasGivenFinalizer(last.storeBefore, last.key)) => last.requests = <<>>

\* C18 amended: the requests of a call depend on the caller's snapshot and
\* token only; an ensure-present call from a stale snapshot that lacks the
\* token submits a patch even when the store holds the token, except that
\* EnsureFinalizer submits nothing from a snapshot whose DeletionTimestamp is
\* set; and one from a stale snapshot that has the token submits nothing even
\* when the store has lost it.
C18_SnapshotDecides ==
  last.valid =>
    /\ SameRequestsWhateverStore
    /\ (StaleSnapshot /\ last.op \in EnsurePresentOps
          /\ ~HasGivenFinalizer(last.input, last.key)
          /\ HasGivenFinalizer(last.storeBefore, last.key)) =>
         IF last.op = "EnsureFinalizer" /\ last.input.DeletionTimestamp
         THEN last.requests = <<>>
         ELSE Len(last.requests) = 1
    /\ (StaleSnapshot /\ last.op \in EnsurePresentOps
          /\ HasGivenFinalizer(last.input, last.key)
          /\ ~HasGivenFinalizer(last.storeBefore, last.key)) => last.requests = <<>>

C18_Witness ==
  /\ StaleSnapshot /\ last.op = "EnsureServiceFinalizer"
  /\ ~HasGivenFinalizer(last.input, last.key)
  /\ HasGivenFinalizer(last.storeBefore, last.key)
  /\ Len(last.requests) = 1 /\ ~last.err

====
